---- MODULE Spec2Model ----
(***************************************************************************)
(* Model of inference-service/server.py: the /predict request handler, the *)
(* worker pool it offloads to, the temporary file used for decoding, and   *)
(* the pure helpers pad_or_trim and inference_from_melspec.                *)
(***************************************************************************)
EXTENDS Integers, Sequences, FiniteSets, TLC

(* ---------------------------------------------------------------- bounds *)
NReq == 2          \* requests in flight
MaxLen == 4        \* longest sample sequence given to pad_or_trim
MaxOut == 11       \* longest model output vector
MaxDim == 3        \* largest frequency/time/height/width dimension

(* ------------------------------------------------------ program constants *)
MAX_FILE_SIZE == 50 * 1024 * 1024
max_workers == 4
class_names ==
  << "bobfly1", "ducfly", "brratt1", "barant1", "squcuc1",
     "greant1", "bubwre1", "oliwoo1", "fepowl", "butwoo1" >>

\* Python None, for references that hold records or sequences.
None == << >>

VARIABLES
  started,       \* lifespan startup has run
  model,         \* the global model reference
  pc,            \* position of each request's handler / pool task
  filename,      \* file.filename of each request
  file_content,  \* bytes returned by file.read()
  fs,            \* temporary directory: path -> content
  temp_file,     \* name of the NamedTemporaryFile the request created
  temp_path,     \* local temp_path of _process_sync
  audio_array,   \* result of librosa.load
  mel_spec_db,   \* result of process_audio_file
  fut,           \* outcome of the awaited executor future
  prediction,    \* value of the _predict_sync future
  queue,         \* work queue of the ThreadPoolExecutor
  resp,          \* responses sent for each request, in order
  hist,          \* pipeline stages each request executed, in order
  submitted,     \* pool tasks each request submitted
  pad_in, pad_rate, pad_len, pad_out,   \* pad_or_trim call
  inf_mel, inf_model, inf_out           \* inference_from_melspec call

srvVars == << started, model, pc, filename, file_content, fs, temp_file,
              temp_path, audio_array, mel_spec_db, fut, prediction, queue, resp, hist,
              submitted >>
padVars == << pad_in, pad_rate, pad_len, pad_out >>
infVars == << inf_mel, inf_model, inf_out >>
vars == << srvVars, padVars, infVars >>

R == 1 .. NReq

(* ------------------------------------------------------------ pad_or_trim *)
Zeros(n) == [i \in 1 .. n |-> 0]

pad_or_trim_front(audio, sampling_rate, max_len) ==
  LET desired_len == max_len * sampling_rate IN
  IF Len(audio) < desired_len
    THEN Zeros(desired_len - Len(audio)) \o audio
    ELSE SubSeq(audio, 1, desired_len)

pad_or_trim(audio, sampling_rate, max_len) ==
  LET desired_len == max_len * sampling_rate IN
  IF Len(audio) < desired_len
    THEN audio \o Zeros(desired_len - Len(audio))
    ELSE SubSeq(audio, 1, desired_len)

Samples == {-1, 0, 1}
Rates == {1, 2}
Durations == {1, 2}
SampleSeqs == UNION {[1 .. n -> Samples] : n \in 0 .. MaxLen}

InitPad ==
  /\ pad_in \in SampleSeqs
  /\ pad_rate \in Rates
  /\ pad_len \in Durations
  /\ pad_out = None

IdlePad ==
  /\ pad_in = << >>
  /\ pad_rate = 1
  /\ pad_len = 1
  /\ pad_out = None

DoPad ==
  /\ pad_out = None
  /\ pad_out' = << pad_or_trim(pad_in, pad_rate, pad_len) >>
  /\ UNCHANGED << pad_in, pad_rate, pad_len, srvVars, infVars >>

(* ------------------------------------------------- inference_from_melspec *)
\* Values a model output may hold; 0 and 1 bound the probability range.
Vals == -1 .. 2

\* tuple[1:3] of Python: the elements at 0-based positions 1 and 2.
Slice13(t) == SubSeq(t, 2, 3)

\* tf.image.resize(images, size) on a 3-D tensor [height, width, channels].
tf_image_resize(mel, size) ==
  [mel EXCEPT !.shape = << size[1], size[2], mel.shape[3] >>]

\* np.expand_dims(x, axis=0)
expand_dims(mel) == [mel EXCEPT !.shape = << 1 >> \o mel.shape]

RECURSIVE np_max(_)
np_max(v) ==
  IF Len(v) = 1 THEN v[1]
  ELSE LET m == np_max(Tail(v)) IN IF v[1] >= m THEN v[1] ELSE m

RECURSIVE np_argmin(_)
np_argmin(v) ==
  IF Len(v) = 1 THEN 0
  ELSE LET k == np_argmin(Tail(v)) IN
       IF v[1] <= Tail(v)[k + 1] THEN 0 ELSE k + 1

\* np.argmax: 0-based index of the first occurrence of the maximum.
RECURSIVE np_argmax(_)
np_argmax(v) ==
  IF Len(v) = 1 THEN 0
  ELSE LET k == np_argmax(Tail(v)) IN
       IF v[1] >= Tail(v)[k + 1] THEN 0 ELSE k + 1

\* model.predict: Keras rejects a batch whose height and width are not the
\* declared ones; otherwise the opaque network maps the features to a vector.
ModelAccepts(m, batch) ==
  /\ m # None
  /\ SubSeq(batch.shape, 2, 3) = SubSeq(m.input_shape, 2, 3)
  /\ Len(m.out[batch.src]) >= 1

Raised == [status |-> "raised"]

inference_from_melspec(mel, m, names) ==
  IF m = None THEN Raised
  ELSE
    LET resize  == Slice13(m.input_shape) # Slice13(mel.shape)
        resized == IF resize THEN tf_image_resize(mel, Slice13(m.input_shape))
                   ELSE mel
        batch   == expand_dims(resized)
        handed  == [resized |-> resize, shape |-> batch.shape]
    IN  IF ~ ModelAccepts(m, batch) THEN Raised @@ handed
        ELSE LET pred       == m.out[batch.src]
                 pred_label == np_argmax(pred)
                 confidence == np_max(pred)
             IN  IF pred_label + 1 > Len(names) THEN Raised @@ handed
                 ELSE [status |-> "ok", label |-> names[pred_label + 1],
                       confidence |-> confidence] @@ handed

Dims == 1 .. MaxDim
Data == {"songA", "songB", "garbage"}

\* Output vectors: n entries equal to lo, one entry raised to hi.
OutVec(n, k, lo, hi) == [i \in 1 .. n |-> IF i = k THEN hi ELSE lo]
OutVecs ==
  {OutVec(n, k, lo, hi) : n \in 1 .. MaxOut, k \in 1 .. MaxOut,
                          lo \in Vals, hi \in Vals}

InitInf ==
  /\ inf_mel \in {[shape |-> << f, t, 1 >>, src |-> "songA"] :
                     f \in Dims, t \in Dims}
  /\ inf_model \in {[input_shape |-> << "None", h, w, 1 >>,
                     out |-> [d \in Data |-> v]] :
                       h \in Dims, w \in Dims, v \in OutVecs}
  /\ inf_out = None

IdleInf ==
  /\ inf_mel = None
  /\ inf_model = None
  /\ inf_out = None

DoInfer ==
  /\ inf_out = None
  /\ inf_out' = inference_from_melspec(inf_mel, inf_model, class_names)
  /\ UNCHANGED << inf_mel, inf_model, srvVars, padVars >>

(* --------------------------------------------------------- the web service *)
n_mels == 40
target_sampling_rate == 16000
max_len == 5
hop_length == 512

\* Filenames are sequences of characters.
NameMP3 == << "S", ".", "M", "P", "3" >>
NameTxt == << "s", ".", "t", "x", "t" >>
NameBare == << "m", "4", "a" >>
Filenames == {NameMP3, NameTxt, NameBare}

LowerChar(c) ==
  CASE c = "S" -> "s" [] c = "M" -> "m" [] c = "P" -> "p" [] OTHER -> c
lower(s) == [i \in 1 .. Len(s) |-> LowerChar(s[i])]

endswith(s, suffixes) ==
  \E suf \in suffixes :
    /\ Len(s) >= Len(suf)
    /\ SubSeq(s, Len(s) - Len(suf) + 1, Len(s)) = suf

AudioSuffixes ==
  { << ".", "m", "p", "3" >>, << ".", "w", "a", "v" >>,
    << ".", "m", "4", "a" >> }

\* The two checks predict_audio makes before it reads the body.
precheck_model_first(fn, m) ==
  IF m = None THEN "model_not_loaded"
  ELSE IF ~ endswith(lower(fn), AudioSuffixes) THEN "bad_extension"
  ELSE "go"

precheck_no_model_check(fn, m) ==
  IF ~ endswith(lower(fn), AudioSuffixes) THEN "bad_extension" ELSE "go"

precheck(fn, m) ==
  IF ~ endswith(lower(fn), AudioSuffixes) THEN "bad_extension"
  ELSE IF m = None THEN "model_not_loaded"
  ELSE "go"

HTTPException(code, detail) == [status |-> code, detail |-> detail]

\* except Exception as e: raise HTTPException(500, ...)
except_Exception(e) == HTTPException(500, "error_processing_audio_file")

Sizes == {MAX_FILE_SIZE, MAX_FILE_SIZE + 1}
Contents == {[data |-> d, len |-> n] : d \in Data, n \in Sizes}
Partial == [data |-> "garbage", len |-> 0]

Paths == 1 .. NReq
exists(path) == path \in DOMAIN fs

\* tempfile.NamedTemporaryFile(delete=False): a random name not yet in use.
\* Names are opaque tokens, so the caller's own number is drawn when it is
\* free, and the least free one otherwise.
NamedTemporaryFile_fixed(files, r) == 1

NamedTemporaryFile(files, r) ==
  IF r \notin DOMAIN files THEN r
  ELSE CHOOSE p \in Paths \ DOMAIN files :
         \A q \in Paths \ DOMAIN files : p <= q

unlink(files, path) == [p \in DOMAIN files \ {path} |-> files[p]]

\* librosa.load: unparseable bytes raise.
Decodable(content) == content.data # "garbage"
librosa_load(content) == [src |-> content.data]

\* resample, denoise, pad_or_trim, to_melspectrogram: the spectrogram of a
\* clip of max_len * target_sampling_rate samples.
preprocess_audio_data(audio) ==
  LET desired_len == max_len * target_sampling_rate IN
  [shape |-> << n_mels, 1 + desired_len \div hop_length, 1 >>,
   src |-> audio.src]

\* The artifact at MODEL_PATH: an opaque network over the ten classes.
Network ==
  [input_shape |-> << "None", n_mels,
                      1 + (max_len * target_sampling_rate) \div hop_length, 1 >>,
   out |-> [d \in Data |->
              CASE d = "songA" -> OutVec(Len(class_names), 1, 0, 1)
                [] d = "songB" -> OutVec(Len(class_names), 4, 0, 1)
                [] OTHER -> OutVec(Len(class_names), 9, 0, 0)]]
Artifacts == {"absent", "corrupt", "valid"}

Running == {r \in R : pc[r] \in {"p_write", "p_load", "p_pre", "p_finally",
                                 "i_run"}}

InitSrv ==
  /\ started = FALSE
  /\ model = None
  /\ pc = [r \in R |-> "idle"]
  /\ filename = [r \in R |-> None]
  /\ file_content = [r \in R |-> None]
  /\ fs = << >>
  /\ temp_file = [r \in R |-> 0]
  /\ temp_path = [r \in R |-> 0]
  /\ audio_array = [r \in R |-> None]
  /\ mel_spec_db = [r \in R |-> None]
  /\ fut = [r \in R |-> "none"]
  /\ prediction = [r \in R |-> None]
  /\ queue = << >>
  /\ resp = [r \in R |-> << >>]
  /\ hist = [r \in R |-> << >>]
  /\ submitted = [r \in R |-> 0]

(* lifespan startup: load_model *)
load_model(artifact) == IF artifact = "valid" THEN Network ELSE None

Startup ==
  /\ ~ started
  /\ \E artifact \in Artifacts : model' = load_model(artifact)
  /\ started' = TRUE
  /\ UNCHANGED << pc, filename, file_content, fs, temp_file, temp_path,
                  audio_array, mel_spec_db, fut, prediction, queue, resp,
                  hist, submitted, padVars, infVars >>

Send(r, response) == [resp EXCEPT ![r] = Append(@, response)]
Did(r, stage) == [hist EXCEPT ![r] = Append(@, stage)]

(* predict_audio, from its call to the first await *)
HandlerStart(r) ==
  /\ started
  /\ pc[r] = "idle"
  /\ \E fn \in Filenames :
       /\ filename' = [filename EXCEPT ![r] = fn]
       /\ LET go == precheck(fn, model) IN
          CASE go = "bad_extension" ->
                 /\ resp' = Send(r, HTTPException(400, "only_audio_files"))
                 /\ pc' = [pc EXCEPT ![r] = "done"]
            [] go = "model_not_loaded" ->
                 /\ resp' = Send(r, HTTPException(500, "model_not_loaded"))
                 /\ pc' = [pc EXCEPT ![r] = "done"]
            [] OTHER ->
                 /\ resp' = resp
                 /\ pc' = [pc EXCEPT ![r] = "read"]
  /\ UNCHANGED << started, model, file_content, fs, temp_file, temp_path,
                  audio_array, mel_spec_db, fut, prediction, queue, hist,
                  submitted, padVars, infVars >>

(* await file.read() fails: the except clause answers *)
ReadFails(r) ==
  /\ pc[r] = "read"
  /\ hist' = Did(r, "read")
  /\ resp' = Send(r, except_Exception("read_error"))
  /\ pc' = [pc EXCEPT ![r] = "done"]
  /\ UNCHANGED << started, model, filename, file_content, fs, temp_file,
                  temp_path, audio_array, mel_spec_db, fut, prediction, queue,
                  submitted, padVars, infVars >>

(* await file.read() returns; size check; process_audio_file submits *)
ReadBody(r) ==
  /\ pc[r] = "read"
  /\ hist' = Did(r, "read")
  /\ \E content \in Contents :
       /\ file_content' = [file_content EXCEPT ![r] = content]
       /\ IF content.len > MAX_FILE_SIZE
            THEN /\ resp' = Send(r, except_Exception(
                                      HTTPException(413, "file_too_large")))
                 /\ pc' = [pc EXCEPT ![r] = "done"]
                 /\ UNCHANGED << queue, submitted >>
            ELSE /\ queue' = Append(queue, r)
                 /\ submitted' = [submitted EXCEPT ![r] = @ + 1]
                 /\ pc' = [pc EXCEPT ![r] = "q_process"]
                 /\ resp' = resp
  /\ UNCHANGED << started, model, filename, fs, temp_file, temp_path,
                  audio_array, mel_spec_db, fut, prediction, padVars, infVars >>

(* a free worker of the ThreadPoolExecutor takes the oldest work item *)
StartTask ==
  /\ queue # << >>
  /\ Cardinality(Running) < max_workers
  /\ LET r == Head(queue) IN
       pc' = [pc EXCEPT ![r] = IF pc[r] = "q_process" THEN "p_write"
                               ELSE "i_run"]
  /\ queue' = Tail(queue)
  /\ UNCHANGED << started, model, filename, file_content, fs, temp_file,
                  temp_path, audio_array, mel_spec_db, fut, prediction, resp,
                  hist, submitted, padVars, infVars >>

(* _process_sync: the with block *)
PWrite(r) ==
  /\ pc[r] = "p_write"
  /\ hist' = Did(r, "write")
  /\ LET name == NamedTemporaryFile(fs, r) IN
       /\ temp_file' = [temp_file EXCEPT ![r] = name]
       /\ \/ /\ fs' = (name :> [bytes |-> file_content[r], by |-> r]) @@ fs
             /\ temp_path' = [temp_path EXCEPT ![r] = name]
             /\ pc' = [pc EXCEPT ![r] = "p_load"]
             /\ fut' = fut
          \/ /\ fs' = (name :> [bytes |-> Partial, by |-> r]) @@ fs
             /\ temp_path' = temp_path
             /\ pc' = [pc EXCEPT ![r] = "p_done"]
             /\ fut' = [fut EXCEPT ![r] = "exception"]
  /\ UNCHANGED << started, model, filename, file_content, audio_array,
                  mel_spec_db, prediction, queue, resp, submitted, padVars,
                  infVars >>

(* _process_sync: librosa.load(temp_path, sr=None) *)
PLoad(r) ==
  /\ pc[r] = "p_load"
  /\ hist' = Did(r, "decode")
  /\ IF exists(temp_path[r]) /\ Decodable(fs[temp_path[r]].bytes)
       THEN /\ audio_array' = [audio_array EXCEPT
                                 ![r] = librosa_load(fs[temp_path[r]].bytes)]
            /\ pc' = [pc EXCEPT ![r] = "p_pre"]
            /\ fut' = fut
       ELSE /\ audio_array' = audio_array
            /\ pc' = [pc EXCEPT ![r] = "p_finally"]
            /\ fut' = [fut EXCEPT ![r] = "raising"]
  /\ UNCHANGED << started, model, filename, file_content, fs, temp_file,
                  temp_path, mel_spec_db, prediction, queue, resp, submitted,
                  padVars, infVars >>

(* _process_sync: preprocess_audio_data(...) *)
PPre(r) ==
  /\ pc[r] = "p_pre"
  /\ hist' = Did(r, "preprocess")
  /\ pc' = [pc EXCEPT ![r] = "p_finally"]
  /\ \/ /\ mel_spec_db' = [mel_spec_db EXCEPT
                             ![r] = preprocess_audio_data(audio_array[r])]
        /\ fut' = [fut EXCEPT ![r] = "returning"]
     \/ /\ mel_spec_db' = mel_spec_db
        /\ fut' = [fut EXCEPT ![r] = "raising"]
  /\ UNCHANGED << started, model, filename, file_content, fs, temp_file,
                  temp_path, audio_array, prediction, queue, resp, submitted,
                  padVars, infVars >>

(* _process_sync: the finally block, then the future completes *)
PFinally(r) ==
  /\ pc[r] = "p_finally"
  /\ fs' = IF exists(temp_path[r]) THEN unlink(fs, temp_path[r]) ELSE fs
  /\ fut' = [fut EXCEPT ![r] = IF @ = "raising" THEN "exception"
                               ELSE "result"]
  /\ pc' = [pc EXCEPT ![r] = "p_done"]
  /\ UNCHANGED << started, model, filename, file_content, temp_file,
                  temp_path, audio_array, mel_spec_db, prediction, queue,
                  resp, hist, submitted, padVars, infVars >>

(* variants of the resumption after await process_audio_file(...) *)
ResumeProcess_ignores_failure(r) ==
  /\ pc[r] = "p_done"
  /\ queue' = Append(queue, r)
  /\ submitted' = [submitted EXCEPT ![r] = @ + 1]
  /\ pc' = [pc EXCEPT ![r] = "q_predict"]
  /\ UNCHANGED << started, model, filename, file_content, fs, temp_file,
                  temp_path, audio_array, mel_spec_db, fut, prediction, resp,
                  hist, padVars, infVars >>

ResumeProcess_inline_predict(r) ==
  /\ pc[r] = "p_done"
  /\ IF fut[r] = "exception"
       THEN /\ resp' = Send(r, except_Exception("process_error"))
            /\ pc' = [pc EXCEPT ![r] = "done"]
       ELSE /\ pc' = [pc EXCEPT ![r] = "i_run"]
            /\ resp' = resp
  /\ UNCHANGED << started, model, filename, file_content, fs, temp_file,
                  temp_path, audio_array, mel_spec_db, fut, prediction, queue,
                  hist, submitted, padVars, infVars >>

(* predict_audio resumes after await process_audio_file(...) *)
ResumeProcess(r) ==
  /\ pc[r] = "p_done"
  /\ IF fut[r] = "exception"
       THEN /\ resp' = Send(r, except_Exception("process_error"))
            /\ pc' = [pc EXCEPT ![r] = "done"]
            /\ UNCHANGED << queue, submitted >>
       ELSE /\ queue' = Append(queue, r)
            /\ submitted' = [submitted EXCEPT ![r] = @ + 1]
            /\ pc' = [pc EXCEPT ![r] = "q_predict"]
            /\ resp' = resp
  /\ UNCHANGED << started, model, filename, file_content, fs, temp_file,
                  temp_path, audio_array, mel_spec_db, fut, prediction, hist,
                  padVars, infVars >>

(* _predict_sync on a worker *)
PredictRun(r) ==
  /\ pc[r] = "i_run"
  /\ hist' = Did(r, "inference")
  /\ \/ prediction' = [prediction EXCEPT
          ![r] = inference_from_melspec(mel_spec_db[r], model, class_names)]
     \/ prediction' = [prediction EXCEPT ![r] = Raised]
  /\ pc' = [pc EXCEPT ![r] = "i_done"]
  /\ UNCHANGED << started, model, filename, file_content, fs, temp_file,
                  temp_path, audio_array, mel_spec_db, fut, queue, resp,
                  submitted, padVars, infVars >>

PredictionResponse(p) ==
  [status |-> 200, ebird_code |-> p.label, confidence |-> p.confidence]

(* predict_audio resumes after the second await and answers *)
ResumePredict(r) ==
  /\ pc[r] = "i_done"
  /\ resp' = Send(r, IF prediction[r].status = "ok"
                       THEN PredictionResponse(prediction[r])
                       ELSE except_Exception("inference_error"))
  /\ pc' = [pc EXCEPT ![r] = "done"]
  /\ UNCHANGED << started, model, filename, file_content, fs, temp_file,
                  temp_path, audio_array, mel_spec_db, fut, prediction, queue,
                  hist, submitted, padVars, infVars >>

Next ==
  \/ Startup
  \/ StartTask
  \/ \E r \in R : HandlerStart(r)
  \/ \E r \in R : ReadFails(r)
  \/ \E r \in R : ReadBody(r)
  \/ \E r \in R : PWrite(r)
  \/ \E r \in R : PLoad(r)
  \/ \E r \in R : PPre(r)
  \/ \E r \in R : PFinally(r)
  \/ \E r \in R : ResumeProcess(r)
  \/ \E r \in R : PredictRun(r)
  \/ \E r \in R : ResumePredict(r)

Init == InitSrv /\ IdlePad /\ IdleInf
Spec == Init /\ [][Next]_vars

\* Fair scheduling: the event loop and the pool's workers do not stop while a
\* coroutine is ready to resume, a work item is queued with a worker free, or
\* a worker is inside a task. Arrivals (HandlerStart) are left to the clients.
RequestStep(r) ==
  \/ ReadFails(r) \/ ReadBody(r) \/ PWrite(r) \/ PLoad(r) \/ PPre(r)
  \/ PFinally(r) \/ ResumeProcess(r) \/ PredictRun(r) \/ ResumePredict(r)
SystemStep == Startup \/ StartTask \/ \E r \in R : RequestStep(r)
LiveSpec == Init /\ [][Next]_vars /\ WF_vars(SystemStep)

\* pad_or_trim applied to one input.
PadInit == InitSrv /\ InitPad /\ IdleInf
PadNext == DoPad
SpecPad == PadInit /\ [][PadNext]_vars

\* inference_from_melspec applied to one tensor and one model.
InfInit == InitSrv /\ IdlePad /\ InitInf
InfNext == DoInfer
SpecInf == InfInit /\ [][InfNext]_vars

(* ================================================================ claims *)
Accepted(fn) == endswith(lower(fn), AudioSuffixes)
Stages(r) == {hist[r][i] : i \in 1 .. Len(hist[r])}
Preprocessing == {"write", "decode", "preprocess"}
Answered(r, code) == Len(resp[r]) = 1 /\ resp[r][1].status = code
Min(a, b) == IF a <= b THEN a ELSE b

\* C1: a request with an accepted extension, a loaded model and a body larger
\* than 50 MiB is answered 413, and neither preprocessing nor inference is
\* started for it.
C1_TooLargeIs413 ==
  \A r \in R :
    (/\ pc[r] = "done"
     /\ file_content[r] # None
     /\ file_content[r].len > 50 * 1024 * 1024)
    => /\ Answered(r, 413)
       /\ Stages(r) \cap (Preprocessing \cup {"inference"}) = {}
       /\ submitted[r] = 0

\* C2: a request whose lower-cased filename does not end in .mp3, .wav or
\* .m4a is answered 400 before the body is read, before anything is submitted
\* to the pool and before the model is invoked, model loaded or not.
C2_BadExtensionIs400 ==
  \A r \in R :
    (pc[r] # "idle" /\ ~ Accepted(filename[r]))
    => /\ pc[r] = "done"
       /\ Answered(r, 400)
       /\ hist[r] = << >>
       /\ submitted[r] = 0
       /\ file_content[r] = None

C2_Witness ==
  \E r \in R :
    /\ started /\ model = None
    /\ filename[r] = NameTxt
    /\ Answered(r, 400)

\* C3: with no model loaded, a request with an accepted extension is answered
\* 500 "model not loaded" before the body is read and before any
\* preprocessing; no prediction is returned while the model is unset.
C3_ModelUnavailable ==
  \A r \in R :
    /\ (model = None /\ pc[r] # "idle" /\ Accepted(filename[r]))
       => /\ pc[r] = "done"
          /\ resp[r] = << HTTPException(500, "model_not_loaded") >>
          /\ hist[r] = << >>
          /\ submitted[r] = 0
          /\ file_content[r] = None
    /\ model = None
       => \A i \in 1 .. Len(resp[r]) : resp[r][i].status # 200

C3_Witness ==
  \E r \in R :
    /\ started /\ model = None
    /\ filename[r] = NameMP3
    /\ Answered(r, 500)

\* C4: pad_or_trim returns exactly L = rate * duration samples: the first
\* min(n, L) are the input's, in order, and the rest are zeros at the end.
C4_PadOrTrim ==
  pad_out # None =>
    LET out == pad_out[1]
        L   == pad_rate * pad_len
        n   == Len(pad_in)
    IN  /\ Len(out) = L
        /\ \A i \in 1 .. Min(n, L) : out[i] = pad_in[i]
        /\ \A i \in (n + 1) .. L : out[i] = 0

C4_Witness ==
  /\ pad_out # None
  /\ Len(pad_in) > 0
  /\ Len(pad_in) < pad_rate * pad_len
  /\ pad_in[1] # 0
  /\ pad_out[1][Len(pad_out[1])] = 0

\* C5: once a request's _process_sync has returned or raised, no temporary
\* file created by that request exists.
C5_TempFileRemoved ==
  \A r \in R :
    pc[r] \in {"p_done", "q_predict", "i_run", "i_done", "done"}
    => \A p \in DOMAIN fs : fs[p].by # r

\* The label and confidence a model assigns to a body, stated from the
\* model's output vector alone.
IsBestOf(v, i) == i \in 1 .. Len(v) /\ \A j \in 1 .. Len(v) : v[j] <= v[i]
AnswerFor(m, content, response) ==
  /\ content # None /\ content.data # "garbage"
  /\ \E i \in 1 .. Len(class_names) :
       /\ IsBestOf(m.out[content.data], i)
       /\ response.ebird_code = class_names[i]
       /\ response.confidence = m.out[content.data][i]

\* C6: with a loaded model and N <= 4 concurrent requests, under fair
\* scheduling every request is eventually answered, never more than 4 pool
\* tasks run at once, every prediction returned is the one the model assigns
\* to that request's own body, and no handler writes the model reference
\* after startup.
C6_ConcurrentRequests ==
  /\ [](Cardinality(Running) <= 4)
  /\ [](\A r \in R : \A i \in 1 .. Len(resp[r]) :
          resp[r][i].status = 200
          => AnswerFor(model, file_content[r], resp[r][i]))
  /\ [][started => model' = model]_vars
  /\ \A r \in R : (pc[r] # "idle") ~> (pc[r] = "done")

C6_Witness ==
  /\ model # None
  /\ \A r \in R : Answered(r, 200)
  /\ \E r1, r2 \in R : file_content[r1].data # file_content[r2].data

\* The tensor of an inference_from_melspec call reached the network.
InfReached ==
  /\ inf_out # None
  /\ SubSeq(inf_out.shape, 2, 3) = SubSeq(inf_model.input_shape, 2, 3)
InfVector == inf_model.out[inf_mel.src]
InfReturnsBest ==
  /\ inf_out.status = "ok"
  /\ \E i \in 1 .. Len(class_names) :
       /\ IsBestOf(InfVector, i)
       /\ inf_out.label = class_names[i]
       /\ inf_out.confidence = InfVector[i]
  /\ 0 <= inf_out.confidence /\ inf_out.confidence <= 1

\* C7 (as claimed): for every model output vector, predict returns the class
\* list's entry at the index of the vector's maximum and that maximum as the
\* confidence, which lies in [0,1].
C7_AnyOutputVector == InfReached => InfReturnsBest

\* C7 (amended): the same for every output vector of at most 10 entries, each
\* of them in [0,1].
C7_NormalizedOutputVector ==
  (/\ InfReached
   /\ Len(InfVector) <= 10
   /\ \A j \in 1 .. Len(InfVector) : 0 <= InfVector[j] /\ InfVector[j] <= 1)
  => InfReturnsBest

C7_Witness ==
  /\ InfReached
  /\ Len(InfVector) = 10
  /\ InfVector[10] = 1
  /\ \A j \in 1 .. 9 : InfVector[j] = 0
  /\ inf_out.status = "ok" /\ inf_out.label = "butwoo1"

\* A stage of the request's pipeline has failed.
Failed(r) ==
  \/ pc[r] = "done" /\ hist[r] = << "read" >> /\ file_content[r] = None
  \/ fut[r] \in {"raising", "exception"}
  \/ prediction[r] # None /\ prediction[r].status = "raised"
Pipeline == << "read", "write", "decode", "preprocess", "inference" >>

\* C8: for a request past the extension and model checks, a failure at any
\* stage ends the request with exactly one 500 response; no stage runs twice,
\* none runs after the failing one, the failed request keeps no worker, and
\* the model reference is unchanged.
C8_FailureIsTerminal ==
  /\ [](\A r \in R :
          /\ Len(resp[r]) <= 1
          /\ hist[r] = SubSeq(Pipeline, 1, Len(hist[r]))
          /\ Failed(r) =>
               /\ pc[r] \in {"p_finally", "p_done", "i_done", "done"}
               /\ \A i \in 1 .. Len(resp[r]) : resp[r][i].status = 500
               /\ fut[r] \in {"raising", "exception"}
                    => "inference" \notin Stages(r) /\ submitted[r] = 1
          /\ (Failed(r) /\ pc[r] = "done") =>
               /\ Answered(r, 500)
               /\ \A i \in 1 .. Len(queue) : queue[i] # r)
  /\ [][started => model' = model]_vars
  /\ [][\A r \in R : (Failed(r) /\ pc[r] = "done")
          => resp'[r] = resp[r] /\ hist'[r] = hist[r] /\ pc'[r] = "done"]_vars

C8_Witness ==
  \E r1, r2 \in R :
    /\ fut[r1] = "exception" /\ hist[r1] = << "read", "write", "decode" >>
    /\ Answered(r1, 500)
    /\ Answered(r2, 200)

\* C9: the tensor is resized if and only if its (F, T) differs from the
\* model's (H, W), and the tensor handed to the model always has shape (H, W).
C9_ResizeIffShapeDiffers ==
  (inf_out # None) =>
    LET FT == << inf_mel.shape[1], inf_mel.shape[2] >>
        HW == << inf_model.input_shape[2], inf_model.input_shape[3] >>
    IN  /\ inf_out.resized <=> (FT # HW)
        /\ << inf_out.shape[2], inf_out.shape[3] >> = HW

====
